---------------------------- MODULE Spec2Model ----------------------------
(***************************************************************************)
(* Model of the three transcription workflows of the repository:           *)
(*   "audio" : src/transcribe_audio.py                  (no diarization)   *)
(*   "diar"  : src/transcribe_audio_with_diarization.py                    *)
(*   "final" : src/transcribe_final.py      (diarization + MP3 conversion) *)
(* Each workflow is the function transcribe_audio_with_diarization of its  *)
(* file.  Text values are TLA+ strings; TLC evaluates Len, SubSeq, Head,    *)
(* Tail and \o on them character by character.                             *)
(***************************************************************************)
EXTENDS Integers, Sequences, FiniteSets, TLC

(***************************************************************************)
(* Bounds of the model.                                                    *)
(***************************************************************************)
\* segments per response, formatter specification
MaxSegs == 2
\* word tokens per alternative, formatter specification
MaxWords == 2
\* segments per response, whole-pipeline specification
PipeMaxSegs == 2
\* word tokens per alternative, whole-pipeline specification
PipeMaxWords == 1

(***************************************************************************)
(* Python values.                                                          *)
(***************************************************************************)
\* Python None where a string or a tag is expected
None == "None"
\* an attribute that the object does not carry (getattr falls to its default)
NoAttr == "<no attribute>"
\* no output file on disk
NoFile == "<no file>"
\* no exception
NoExc == "<no exception>"

Variants == {"audio", "diar", "final"}
Diarized == {"diar", "final"}

(***************************************************************************)
(* String functions of Python used by the code.                            *)
(***************************************************************************)
IsSpace(c) == c \in {" ", "\n", "\t", "\r"}

RECURSIVE LStrip(_)
LStrip(s) == IF s # "" /\ IsSpace(Head(s)) THEN LStrip(Tail(s)) ELSE s

RECURSIVE RStrip(_)
RStrip(s) ==
    IF s # "" /\ IsSpace(SubSeq(s, Len(s), Len(s)))
    THEN RStrip(SubSeq(s, 1, Len(s) - 1))
    ELSE s

\* a mutant of Strip: trims only the left end
StripLeftOnly(s) == LStrip(s)

\* str.strip()
Strip(s) == RStrip(LStrip(s))

LowerChar(c) ==
    CASE c = "G" -> "g"
      [] c = "S" -> "s"
      [] c = "M" -> "m"
      [] c = "P" -> "p"
      [] OTHER -> c

RECURSIVE Lower(_)
\* str.lower(), on the letters the modelled paths contain
Lower(s) == IF s = "" THEN "" ELSE LowerChar(Head(s)) \o Lower(Tail(s))

UpperChar(c) ==
    CASE c = "o" -> "O"
      [] c = "g" -> "G"
      [] c = "p" -> "P"
      [] c = "u" -> "U"
      [] c = "s" -> "S"
      [] OTHER -> c

RECURSIVE Upper(_)
\* str.upper(), on the letters the modelled encoding names contain
Upper(s) == IF s = "" THEN "" ELSE UpperChar(Head(s)) \o Upper(Tail(s))

\* str.startswith
StartsWith(s, p) == Len(s) >= Len(p) /\ SubSeq(s, 1, Len(p)) = p

RECURSIVE LastIndexOf(_, _, _)
\* the largest i <= n with s[i] = c, 0 when there is none
LastIndexOf(s, c, n) ==
    IF n = 0 THEN 0
    ELSE IF SubSeq(s, n, n) = c THEN n ELSE LastIndexOf(s, c, n - 1)

\* os.path.dirname
Dirname(p) ==
    LET i == LastIndexOf(p, "/", Len(p))
    IN  IF i = 0 THEN "" ELSE SubSeq(p, 1, i - 1)

\* os.path.basename
Basename(p) == SubSeq(p, LastIndexOf(p, "/", Len(p)) + 1, Len(p))

\* os.path.splitext(p)[1], for paths whose last component holds the dot
Ext(p) ==
    LET i == LastIndexOf(p, ".", Len(p))
    IN  IF i = 0 \/ i < LastIndexOf(p, "/", Len(p)) THEN "" ELSE SubSeq(p, i, Len(p))

\* os.path.splitext(p)[0]
Base(p) == SubSeq(p, 1, Len(p) - Len(Ext(p)))


(***************************************************************************)
(* The recognition response.  A response is the sequence response.results   *)
(* of segments; a segment is its sequence of alternatives; an alternative   *)
(* carries the word list (hasWords = FALSE: no such attribute) and the      *)
(* transcript; a word token is None or carries a text and a speaker tag.    *)
(***************************************************************************)
NullToken == [isNone |-> TRUE, word |-> NoAttr, speaker_tag |-> None]

TokensOf(words, tags) ==
    {NullToken} \cup [isNone : {FALSE}, word : words, speaker_tag : tags]

SeqsUpTo(S, n) == UNION {[1..k -> S] : k \in 0..n}

\* a lower-ranked alternative: the code never reads past alternatives[0]
DecoyAlternative ==
    [hasWords |-> TRUE,
     words |-> <<[isNone |-> FALSE, word |-> "zz", speaker_tag |-> "9"]>>,
     transcript |-> "zz"]

WordAlternatives(tokens, n) ==
    [hasWords : {TRUE}, words : SeqsUpTo(tokens, n), transcript : {""}]
        \cup {[hasWords |-> FALSE, words |-> <<>>, transcript |-> ""]}

SegmentsOf(alts, decoys) ==
    {<<>>} \cup {<<a>> : a \in alts} \cup {<<a, d>> : a \in alts, d \in decoys}

\* responses of the formatter specification
Tokens == TokensOf({NoAttr, "a", "b"}, {None, "1", "2"})
Responses ==
    SeqsUpTo(SegmentsOf(WordAlternatives(Tokens, MaxWords), {DecoyAlternative}),
             MaxSegs)

\* responses of the whole-pipeline specification, diarized variants
PipeTokens == TokensOf({"a"}, {None, "1"})
PipeResponses ==
    SeqsUpTo(SegmentsOf(WordAlternatives(PipeTokens, PipeMaxWords), {}), PipeMaxSegs)

\* responses of the whole-pipeline specification, variant without diarization
TextAlternatives ==
    [hasWords : {FALSE}, words : {<<>>}, transcript : {"", "hello", "bye"}]
AudioResponses ==
    SeqsUpTo(SegmentsOf(TextAlternatives, {DecoyAlternative}), PipeMaxSegs)

(***************************************************************************)
(* Messages.                                                               *)
(***************************************************************************)
EmptyResultMsg ==
    "Error: The API returned no transcription results. Check audio quality or parameters."
NoWordDataMsg ==
    "Error: API returned results, but failed to process diarization word info. Check audio or parameters."
NoAlternativesMsg ==
    "Error: The API returned results but no transcription alternatives."
NoTranscriptTextMsg ==
    "Error: API returned alternatives but no transcript text."
BucketMissingMsg == "Error: GCS_BUCKET_NAME not found in .env file."
CredentialsMissingMsg ==
    "Error: GOOGLE_APPLICATION_CREDENTIALS environment variable not set.\nMake sure it's defined in your .env file and points to your service account key."
UploadFailedMsg == "Failed to upload audio file to Google Cloud Storage."
ConversionFailedMsg == "Error: MP3 to FLAC conversion failed. Cannot proceed."
SourceNotFoundMsg(src) == "Error: Audio source not found at '" \o src \o "'"
ErrorMessage(e) == "An error occurred during transcription: " \o e

(***************************************************************************)
(* State.                                                                  *)
(***************************************************************************)
VARIABLES
    variant,            \* which of the three files runs
    audio_source,       \* argument audio_source / audio_source_in
    output_file,        \* argument output_file, "" for None
    encoding,           \* argument encoding / encoding_in, by name
    sample_rate,        \* argument sample_rate / sample_rate_in, None or a rate
    env_bucket,         \* GCS_BUCKET_NAME is set
    env_cred,           \* GOOGLE_APPLICATION_CREDENTIALS is set
    existed,            \* the local paths that existed when the function was called
    exists,             \* the local paths (files, directories) that exist
    out_content,        \* content of the file at output_file, or NoFile
    pc,                 \* position in the function
    gcs_uri,
    audio_source_to_process,
    was_converted,
    response,           \* response.results
    result_index,       \* loop index over response.results, from 1
    word_index,         \* loop index over alternative.words, from 1
    formatted_transcript,
    current_speaker,
    processing_error_occurred,
    word_count,
    final_transcript_content,
    status_message,
    error_message,
    ret,                \* the returned string
    raised,             \* the exception that left the function, or NoExc
    calls,              \* the calls made on the collaborators, in order
    entry,              \* "call": the function is called; "main": the script is run
    exit_status,        \* the exit status of the process, None while it runs
    written,            \* the local files the run has written
    progress_stop_event,    \* the Event of display_processing_progress is set
    progress_thread     \* position of the thread running update_progress

args == <<entry, variant, audio_source, output_file, encoding, sample_rate,
          env_bucket, env_cred, existed>>
files == <<exists, out_content, written>>
source == <<gcs_uri, audio_source_to_process, was_converted>>
loop == <<result_index, word_index, formatted_transcript, current_speaker,
          processing_error_occurred, word_count>>
texts == <<final_transcript_content, status_message, error_message>>
outcome == <<ret, raised, exit_status>>
progress == <<progress_stop_event, progress_thread>>
vars == <<args, files, source, pc, response, loop, texts, outcome, calls, progress>>

(***************************************************************************)
(* The diarized formatting loop.                                           *)
(***************************************************************************)
\* a mutant of SpeakerTag: the tag is compared as it came
SpeakerTagAsGiven(word_info) == word_info.speaker_tag

\* speaker_tag = getattr(word_info, 'speaker_tag', ...); None becomes '?'
SpeakerTag(word_info) ==
    IF word_info.speaker_tag \in {None, NoAttr} THEN "?" ELSE word_info.speaker_tag

\* a mutant of WordText: a missing text is not replaced by the empty text
WordTextAsGiven(word_info) == word_info.word

\* word = getattr(word_info, 'word', '')
WordText(word_info) == IF word_info.word = NoAttr THEN "" ELSE word_info.word

\* a mutant of SpeakerChanged: a label before every word
SpeakerChangedAlways(speaker_tag, current) == TRUE

\* a mutant of SpeakerChanged: a label only while no speaker is set
SpeakerChangedFromUnset(speaker_tag, current) == current = None

\* if speaker_tag != current_speaker
SpeakerChanged(speaker_tag, current) == speaker_tag # current

\* if formatted_transcript: formatted_transcript += "\n\n"
Separator(transcript) == IF transcript # "" THEN "\n\n" ELSE ""

SpeakerLabel(speaker) == "Speaker " \o speaker \o ": "

\* a mutant of AppendWord: the word goes in front
AppendWordInFront(transcript, word) == word \o " " \o transcript

\* a mutant of AppendWord: no space follows the word
AppendWordUnspaced(transcript, word) == transcript \o word

\* formatted_transcript += f"{word} "
AppendWord(transcript, word) == transcript \o word \o " "

\* a mutant of FirstAlternative: the last alternative is read
LastAlternative(result) == result[Len(result)]

\* alternative = result.alternatives[0]
FirstAlternative(result) == result[1]

\* hasattr(alternative, 'words') and alternative.words
HasWords(alternative) == alternative.hasWords /\ alternative.words # <<>>

\* the function has not returned
NoRet == "<not returned>"

\* one call on a collaborator and whether it came back without raising;
\* the status reads operation.done() are not recorded
Call(op, ok) == [op |-> op, ok |-> ok]

\* the loop moves on from segment i
NextSegment(i) ==
    /\ result_index' = i + 1
    /\ word_index' = 0
    /\ pc' = IF i < Len(response) THEN "fmt_seg" ELSE "fmt_end"

\* formatted_transcript = "" ... if response and response.results:
FormatBegin ==
    /\ pc = "fmt_begin"
    /\ variant \in Diarized
    /\ formatted_transcript' = ""
    /\ current_speaker' = None
    /\ processing_error_occurred' = FALSE
    /\ word_count' = 0
    /\ word_index' = 0
    /\ result_index' = IF response # <<>> THEN 1 ELSE 0
    /\ pc' = IF response # <<>> THEN "fmt_seg" ELSE "fmt_end"
    /\ UNCHANGED <<args, progress, files, source, response, texts, outcome, calls>>

\* one pass of: for result_index, result in enumerate(response.results),
\* up to the loop over the words
SegmentStep ==
    /\ pc = "fmt_seg"
    /\ LET result == response[result_index]
       IN  IF result = <<>>
           THEN \* if not result.alternatives: continue
                /\ NextSegment(result_index)
                /\ UNCHANGED <<processing_error_occurred, word_count>>
           ELSE IF HasWords(FirstAlternative(result))
           THEN /\ word_count' =
                       IF variant = "final"
                       THEN word_count + Len(FirstAlternative(result).words)
                       ELSE word_count
                /\ word_index' = 1
                /\ pc' = "fmt_word"
                /\ UNCHANGED <<result_index, processing_error_occurred>>
           ELSE /\ processing_error_occurred' = (variant = "final")
                /\ NextSegment(result_index)
                /\ UNCHANGED word_count
    /\ UNCHANGED <<args, progress, files, source, response, formatted_transcript,
                   current_speaker, texts, outcome, calls>>

\* one pass of: for word_info in alternative.words
WordStep ==
    /\ pc = "fmt_word"
    /\ LET words == FirstAlternative(response[result_index]).words
           word_info == words[word_index]
           speaker_tag == SpeakerTag(word_info)
           changed == SpeakerChanged(speaker_tag, current_speaker)
           labelled ==
               IF changed
               THEN formatted_transcript \o Separator(formatted_transcript)
                        \o SpeakerLabel(speaker_tag)
               ELSE formatted_transcript
       IN  /\ IF word_info.isNone
              THEN UNCHANGED <<formatted_transcript, current_speaker>>
              ELSE /\ formatted_transcript' = AppendWord(labelled, WordText(word_info))
                   /\ current_speaker' =
                          IF changed THEN speaker_tag ELSE current_speaker
           /\ IF word_index < Len(words)
              THEN /\ word_index' = word_index + 1
                   /\ UNCHANGED <<pc, result_index>>
              ELSE NextSegment(result_index)
    /\ UNCHANGED <<args, progress, files, source, response, processing_error_occurred,
                   word_count, texts, outcome, calls>>

\* a mutant of FinalText: the partial-failure flag decides in both variants
FinalTextByFlag(v, transcript, results, flag) ==
    IF Strip(transcript) # "" THEN Strip(transcript)
    ELSE IF flag THEN NoWordDataMsg ELSE EmptyResultMsg

\* a mutant of FinalText: in the "final" variant a set flag decides first
FinalTextFlagFirst(v, transcript, results, flag) ==
    IF v = "final" /\ flag THEN NoWordDataMsg
    ELSE IF Strip(transcript) # "" THEN Strip(transcript)
    ELSE IF results # <<>> THEN NoWordDataMsg ELSE EmptyResultMsg

\* the text that stands for the transcript after the loop: the trimmed
\* transcript, or the error text when that is empty
FinalText(v, transcript, results, flag) ==
    IF Strip(transcript) # "" THEN Strip(transcript)
    ELSE IF v = "final"
         THEN IF flag THEN NoWordDataMsg ELSE EmptyResultMsg
         ELSE IF results # <<>> THEN NoWordDataMsg ELSE EmptyResultMsg

SuccessStatus(src, count, segments) ==
    "Transcription successful using file: " \o src \o "\nProcessed "
        \o ToString(count) \o " words across " \o ToString(segments)
        \o " speech segments"

\* after the loop: the error text replaces an empty transcript; the final
\* variant also sets its status message
Finalize ==
    /\ pc = "fmt_end"
    /\ LET text == FinalText(variant, formatted_transcript, response,
                             processing_error_occurred)
       IN  IF variant = "final"
           THEN /\ final_transcript_content' = text
                /\ status_message' =
                       IF Strip(formatted_transcript) = ""
                       THEN text
                       ELSE SuccessStatus(audio_source_to_process, word_count,
                                          Len(response))
                /\ UNCHANGED formatted_transcript
           ELSE /\ formatted_transcript' =
                       IF Strip(formatted_transcript) = ""
                       THEN text
                       ELSE formatted_transcript
                /\ UNCHANGED <<final_transcript_content, status_message>>
    /\ pc' = "save"
    /\ UNCHANGED <<args, progress, files, source, response, result_index, word_index,
                   current_speaker, processing_error_occurred, word_count,
                   error_message, outcome, calls>>

\* if output_file: is false
SaveSkip ==
    /\ pc = "save"
    /\ output_file = ""
    /\ pc' = "cleanup"
    /\ UNCHANGED <<args, progress, files, source, response, loop, texts, outcome, calls>>

\* the converted file that the final variant removes before it returns
NeedsCleanup ==
    /\ variant = "final"
    /\ was_converted
    /\ audio_source_to_process \in exists
    /\ audio_source_to_process # audio_source

\* the value of the return statement that ends the try block
ReturnValue ==
    CASE variant = "audio" -> formatted_transcript
      [] variant = "diar" -> Strip(formatted_transcript)
      [] variant = "final" -> status_message

\* return, with no converted file to remove
Return ==
    /\ pc = "cleanup"
    /\ ~NeedsCleanup
    /\ ret' = ReturnValue
    /\ pc' = "returned"
    /\ UNCHANGED <<args, progress, files, source, response, loop, texts, raised,
                   exit_status, calls>>

(***************************************************************************)
(* The formatter on its own: a run called with a gs:// source and no       *)
(* output file, from the arrival of the response to the return.            *)
(***************************************************************************)
FormatInit ==
    /\ variant \in Diarized
    /\ audio_source = "gs://b/a.wav"
    /\ output_file = ""
    /\ encoding = "LINEAR16"
    /\ sample_rate = "16000"
    /\ env_bucket = TRUE
    /\ env_cred = TRUE
    /\ exists = {}
    /\ existed = exists
    /\ out_content = NoFile
    /\ pc = "fmt_begin"
    /\ gcs_uri = audio_source
    /\ audio_source_to_process = audio_source
    /\ was_converted = FALSE
    /\ response \in Responses
    /\ result_index = 0
    /\ word_index = 0
    /\ formatted_transcript = ""
    /\ current_speaker = None
    /\ processing_error_occurred = FALSE
    /\ word_count = 0
    /\ final_transcript_content = ""
    /\ status_message = ""
    /\ error_message = ""
    /\ ret = NoRet
    /\ raised = NoExc
    /\ calls = <<Call("SpeechClient", TRUE), Call("long_running_recognize", TRUE),
                 Call("result", TRUE)>>
    /\ entry = "call"
    /\ exit_status = None
    /\ written = {}
    /\ progress_stop_event = (variant = "final")
    /\ progress_thread = IF variant = "final" THEN "exited" ELSE "none"

FormatNext == FormatBegin \/ SegmentStep \/ WordStep \/ Finalize \/ SaveSkip \/ Return

FormatSpec == FormatInit /\ [][FormatNext]_vars

(***************************************************************************)
(* The whole function, from its call.                                      *)
(***************************************************************************)
\* the audio references a run is called with
Sources == {"gs://b/a.wav", "GS://b/a.wav", "gs://b/a.mp3", "a.wav", "a.mp3"}

\* a reference into remote storage
IsRemote(path) == StartsWith(Lower(path), "gs://")

\* the keys of encoding_map
SupportedEncodings == {"LINEAR16", "FLAC", "MP3", "OGG_OPUS", "MULAW"}

\* the encodings that need a sample rate
RateEncodings == {"LINEAR16", "FLAC", "MULAW"}

\* the function is called: encoding and sample rate are the arguments
CallArguments ==
    /\ output_file \in {"", "t.txt", "out/t.txt"}
    /\ \E given \in IF variant = "final" /\ Lower(Ext(audio_source)) # ".mp3"
                     THEN {<<"LINEAR16", "16000">>, <<"LINEAR16", None>>,
                           <<"OGG_OPUS", None>>}
                     ELSE {<<"LINEAR16", "16000">>} :
           /\ encoding = given[1]
           /\ sample_rate = given[2]
    /\ pc = "start"

\* the script is run: encoding, sample rate and output are the command-line
\* options --encoding, --sample_rate and --output as given ("" for no output)
CommandLine ==
    /\ output_file \in {"", "out/t.txt"}
    /\ encoding \in {"LINEAR16", "ogg_opus", "WAV"}
                        \cup (IF variant = "final" THEN {None} ELSE {})
    /\ sample_rate \in {None, "16000"}
    /\ pc = "main"

Init ==
    /\ entry \in {"call", "main"}
    /\ variant \in Variants
    /\ audio_source \in Sources
    /\ variant # "final" => Lower(Ext(audio_source)) # ".mp3"
    /\ IF entry = "call" THEN CallArguments ELSE CommandLine
    /\ env_bucket \in BOOLEAN
    /\ env_cred \in BOOLEAN
    /\ exists \in SUBSET {path \in {audio_source, Dirname(output_file)} :
                              path # "" /\ ~IsRemote(path)}
    /\ existed = exists
    /\ out_content = NoFile
    /\ written = {}
    /\ exit_status = None
    /\ progress_stop_event = FALSE
    /\ progress_thread = "none"
    /\ gcs_uri = None
    /\ audio_source_to_process = audio_source
    /\ was_converted = FALSE
    /\ response = <<>>
    /\ result_index = 0
    /\ word_index = 0
    /\ formatted_transcript = ""
    /\ current_speaker = None
    /\ processing_error_occurred = FALSE
    /\ word_count = 0
    /\ final_transcript_content = ""
    /\ status_message = ""
    /\ error_message = ""
    /\ ret = NoRet
    /\ raised = NoExc
    /\ calls = <<>>

\* return message
ReturnWith(message) ==
    /\ ret' = message
    /\ pc' = "returned"
    /\ UNCHANGED <<raised, exit_status>>

\* the except clause that ends the function catches e
Caught(e) ==
    /\ error_message' = ErrorMessage(e)
    /\ pc' = "h_save"

SampleRateMissingMsg(enc) ==
    "Error: Sample rate must be provided via --sample_rate for this encoding ("
        \o enc \o ")."

\* entry; the final variant looks at the extension and at the sample rate
Begin ==
    /\ pc = "start"
    /\ IF variant = "final" /\ Lower(Ext(audio_source)) = ".mp3"
       THEN pc' = "convert" /\ UNCHANGED outcome
       ELSE IF variant = "final" /\ encoding \in RateEncodings /\ sample_rate = None
       THEN ReturnWith(SampleRateMissingMsg(encoding))
       ELSE pc' = "config" /\ UNCHANGED outcome
    /\ UNCHANGED <<args, progress, files, source, response, loop, texts, calls>>

\* a mutant of FlacPath: the conversion writes over its input
FlacPathInPlace(mp3_path) == mp3_path

\* base, _ = os.path.splitext(mp3_path); flac_path = base + ".flac"
FlacPath(mp3_path) == Base(mp3_path) \o ".flac"

\* convert_mp3_to_flac and the branch on its result
ConvertMp3 ==
    /\ pc = "convert"
    /\ \/ \* the input file is not there: ffmpeg is not run
          /\ audio_source \notin exists
          /\ ReturnWith(ConversionFailedMsg)
          /\ UNCHANGED <<files, source, calls>>
       \/ \* ffmpeg ends with return code 0
          /\ audio_source \in exists
          /\ exists' = exists \cup {FlacPath(audio_source)}
          /\ written' = written \cup {FlacPath(audio_source)}
          /\ audio_source_to_process' = FlacPath(audio_source)
          /\ was_converted' = TRUE
          /\ calls' = Append(calls, Call("ffmpeg", TRUE))
          /\ pc' = "config"
          /\ UNCHANGED <<out_content, gcs_uri, outcome>>
       \/ \* ffmpeg fails: the partial output file is removed
          /\ audio_source \in exists
          /\ exists' = exists \ {FlacPath(audio_source)}
          /\ written' = written \cup {FlacPath(audio_source)}
          /\ calls' = Append(calls, Call("ffmpeg", FALSE))
          /\ ReturnWith(ConversionFailedMsg)
          /\ UNCHANGED <<out_content, source>>
       \/ \* ffmpeg is not found (FileNotFoundError): nothing was written
          /\ audio_source \in exists
          /\ calls' = Append(calls, Call("ffmpeg", FALSE))
          /\ ReturnWith(ConversionFailedMsg)
          /\ UNCHANGED <<files, source>>
    /\ UNCHANGED <<args, progress, response, loop, texts>>

\* the two configuration checks
CheckConfig ==
    /\ pc = "config"
    /\ IF ~env_bucket THEN ReturnWith(BucketMissingMsg)
       ELSE IF ~env_cred THEN ReturnWith(CredentialsMissingMsg)
       ELSE pc' = "resolve" /\ UNCHANGED outcome
    /\ UNCHANGED <<args, progress, files, source, response, loop, texts, calls>>

\* gs:// reference, existing local path, or neither
ResolveSource ==
    /\ pc = "resolve"
    /\ IF StartsWith(Lower(audio_source_to_process), "gs://")
       THEN /\ gcs_uri' = audio_source_to_process
            /\ pc' = "client"
            /\ UNCHANGED outcome
       ELSE IF audio_source_to_process \in exists
       THEN /\ pc' = "upload"
            /\ UNCHANGED <<gcs_uri, outcome>>
       ELSE /\ ReturnWith(SourceNotFoundMsg(audio_source_to_process))
            /\ UNCHANGED gcs_uri
    /\ UNCHANGED <<args, progress, files, audio_source_to_process, was_converted, response,
                   loop, texts, calls>>

UploadedUri(path) == "gs://bucket/audio_uploads/" \o path

\* upload_to_gcs, which catches what the storage client raises, and the
\* branch on its result
Upload ==
    /\ pc = "upload"
    /\ \/ /\ gcs_uri' = UploadedUri(audio_source_to_process)
          /\ calls' = Append(calls, Call("upload", TRUE))
          /\ pc' = "client"
          /\ UNCHANGED outcome
       \/ /\ calls' = Append(calls, Call("upload", FALSE))
          /\ ReturnWith(UploadFailedMsg)
          /\ UNCHANGED gcs_uri
    /\ UNCHANGED <<args, progress, files, audio_source_to_process, was_converted, response,
                   loop, texts>>

\* progress_stop_event = display_processing_progress(start_time): only the
\* "final" variant has a progress thread
StartsProgress(v) == v = "final"

\* a mutant of SetsStopEvent: the event is set only when the wait succeeds
SetsStopEventOnSuccess(v, ok) == v = "final" /\ ok

\* progress_stop_event.set() follows the wait, whether operation.result
\* returned (ok) or raised
SetsStopEvent(v, ok) == v = "final"

\* where the wait for the operation starts
WaitStart == IF variant = "diar" THEN "poll" ELSE "result"

\* speech.SpeechClient() and client.long_running_recognize(...)
Submit ==
    /\ pc = "client"
    /\ \/ /\ calls' = Append(calls, Call("SpeechClient", FALSE))
          /\ Caught("DefaultCredentialsError")
       \/ /\ calls' = calls \o <<Call("SpeechClient", TRUE),
                                 Call("long_running_recognize", FALSE)>>
          /\ Caught("InvalidArgument")
       \/ /\ calls' = calls \o <<Call("SpeechClient", TRUE),
                                 Call("long_running_recognize", TRUE)>>
          /\ pc' = WaitStart
          /\ UNCHANGED error_message
    /\ progress_thread' = IF pc' = WaitStart /\ StartsProgress(variant)
                           THEN "check" ELSE progress_thread
    /\ UNCHANGED <<args, progress_stop_event, files, source, response, loop,
                   final_transcript_content, status_message, outcome>>

\* one pass of the status loop of the "diar" variant, up to the sleep:
\* operation.done() answers True, answers False, or raises (break)
PollDone ==
    /\ pc = "poll"
    /\ \/ pc' = "result"
       \/ pc' = "sleep"
    /\ UNCHANGED <<args, progress, files, source, response, loop, texts, outcome, calls>>

\* time.sleep(10), then the loop test again
Sleep ==
    /\ pc = "sleep"
    /\ pc' = "poll"
    /\ UNCHANGED <<args, progress, files, source, response, loop, texts, outcome, calls>>

\* response = operation.result(timeout=1800): the response, or an exception
\* (the timeout among them)
WaitResult ==
    /\ pc = "result"
    /\ \/ /\ response' \in IF variant = "audio" THEN AudioResponses ELSE PipeResponses
          /\ calls' = Append(calls, Call("result", TRUE))
          /\ pc' = "fmt_begin"
          /\ UNCHANGED error_message
       \/ /\ calls' = Append(calls, Call("result", FALSE))
          /\ Caught("TimeoutError")
          /\ UNCHANGED response
    /\ progress_stop_event' =
           (progress_stop_event \/ SetsStopEvent(variant, pc' = "fmt_begin"))
    /\ UNCHANGED <<args, progress_thread, files, source, loop,
                   final_transcript_content, status_message, outcome>>

\* a mutant of BasicText: the first segment is read
BasicTextFirstSegment(results) ==
    IF results = <<>> THEN EmptyResultMsg
    ELSE LET final_result == results[1]
         IN  IF final_result = <<>> THEN NoAlternativesMsg
             ELSE IF final_result[1].transcript = "" THEN NoTranscriptTextMsg
             ELSE final_result[1].transcript

\* the transcript of the variant without diarization
BasicText(results) ==
    IF results = <<>> THEN EmptyResultMsg
    ELSE LET final_result == results[Len(results)]
         IN  IF final_result = <<>> THEN NoAlternativesMsg
             ELSE IF final_result[1].transcript = "" THEN NoTranscriptTextMsg
             ELSE final_result[1].transcript

BasicFormat ==
    /\ pc = "fmt_begin"
    /\ variant = "audio"
    /\ formatted_transcript' = BasicText(response)
    /\ pc' = "save"
    /\ UNCHANGED <<args, progress, files, source, response, result_index, word_index,
                   current_speaker, processing_error_occurred, word_count, texts,
                   outcome, calls>>

(***************************************************************************)
(* Saving, the except clause, and the return.                              *)
(***************************************************************************)
\* "Error:" in status_message
Contains(s, p) == \E i \in 1..Len(s) : StartsWith(SubSeq(s, i, Len(s)), p)

\* a mutant of WriteContent: the transcript is written as the loop left it
WriteContentUntrimmed ==
    CASE variant = "audio" -> formatted_transcript
      [] variant = "diar" -> formatted_transcript
      [] variant = "final" -> formatted_transcript

\* the argument of f.write in the try block
WriteContent ==
    CASE variant = "audio" -> formatted_transcript
      [] variant = "diar" -> Strip(formatted_transcript)
      [] variant = "final" -> final_transcript_content

\* a mutant of MakesDirectory: the directory step is left out
MakesDirectoryNever(v, output_dir) == FALSE

\* whether os.makedirs is called: the diarized variants skip it for an empty
\* directory component, the "audio" variant calls it with whatever dirname gives
MakesDirectory(v, output_dir) == v = "audio" \/ output_dir # ""

\* os.makedirs(output_dir, exist_ok=True) in the try block
MakeDirs ==
    /\ pc = "save"
    /\ output_file # ""
    /\ LET output_dir == Dirname(output_file)
       IN  IF ~MakesDirectory(variant, output_dir)
           THEN /\ pc' = "write"
                /\ UNCHANGED <<exists, calls, error_message>>
           ELSE IF output_dir = ""
           THEN \* os.makedirs("") raises FileNotFoundError
                /\ calls' = Append(calls, Call("makedirs", FALSE))
                /\ Caught("FileNotFoundError")
                /\ UNCHANGED exists
           ELSE IF output_dir \in exists
           THEN \* exist_ok: nothing to do
                /\ calls' = Append(calls, Call("makedirs", TRUE))
                /\ pc' = "write"
                /\ UNCHANGED <<exists, error_message>>
           ELSE \/ /\ exists' = exists \cup {output_dir}
                   /\ calls' = Append(calls, Call("makedirs", TRUE))
                   /\ pc' = "write"
                   /\ UNCHANGED error_message
                \/ /\ calls' = Append(calls, Call("makedirs", FALSE))
                   /\ Caught("PermissionError")
                   /\ UNCHANGED exists
    /\ UNCHANGED <<args, progress, out_content, written, source, response, loop,
                   final_transcript_content, status_message, outcome>>

\* the write in the try block did not go through: the diarized variants
\* catch and report, the "audio" variant lets the except clause catch
WriteFailed(e) ==
    IF variant = "audio"
    THEN Caught(e) /\ UNCHANGED status_message
    ELSE /\ pc' = "cleanup"
         /\ status_message' =
                IF variant = "final"
                THEN status_message \o "\nError writing output file: " \o e
                ELSE status_message
         /\ UNCHANGED error_message

\* with open(output_file, 'w') as f: f.write(...) in the try block
WriteFile ==
    /\ pc = "write"
    /\ \/ /\ out_content' = WriteContent
          /\ written' = written \cup {output_file}
          /\ calls' = calls \o <<Call("open", TRUE), Call("write", TRUE)>>
          /\ status_message' =
                 IF variant = "final" /\ ~Contains(status_message, "Error:")
                 THEN status_message \o "\nTranscript saved to: " \o output_file
                 ELSE status_message
          /\ pc' = "cleanup"
          /\ UNCHANGED error_message
       \/ \* open raises: the file is as it was
          /\ calls' = Append(calls, Call("open", FALSE))
          /\ WriteFailed("PermissionError")
          /\ UNCHANGED <<out_content, written>>
       \/ \* write raises: the file was opened for writing and is cut
          /\ out_content' = ""
          /\ written' = written \cup {output_file}
          /\ calls' = calls \o <<Call("open", TRUE), Call("write", FALSE)>>
          /\ WriteFailed("OSError")
    /\ UNCHANGED <<args, progress, exists, source, response, loop, final_transcript_content,
                   outcome>>

\* the final variant removes the converted file, then returns
RemoveFlac ==
    /\ pc = "cleanup"
    /\ NeedsCleanup
    /\ \/ /\ exists' = exists \ {audio_source_to_process}
          /\ calls' = Append(calls, Call("remove", TRUE))
       \/ /\ calls' = Append(calls, Call("remove", FALSE))
          /\ UNCHANGED exists
    /\ ReturnWith(ReturnValue)
    /\ UNCHANGED <<args, progress, out_content, written, source, response, loop,
                   texts>>

\* an exception leaves the function
Escapes(e) ==
    /\ raised' = e
    /\ pc' = "raised"
    /\ UNCHANGED <<ret, exit_status>>

\* the except clause with no output file
HandlerSkip ==
    /\ pc = "h_save"
    /\ output_file = ""
    /\ ReturnWith(error_message)
    /\ UNCHANGED <<args, progress, files, source, response, loop, texts, calls>>

\* os.makedirs(output_dir, exist_ok=True) in the except clause
HandlerMakeDirs ==
    /\ pc = "h_save"
    /\ output_file # ""
    /\ LET output_dir == Dirname(output_file)
       IN  IF ~MakesDirectory(variant, output_dir)
           THEN /\ pc' = "h_write"
                /\ UNCHANGED <<exists, calls, outcome>>
           ELSE IF output_dir = ""
           THEN /\ calls' = Append(calls, Call("makedirs", FALSE))
                /\ Escapes("FileNotFoundError")
                /\ UNCHANGED exists
           ELSE IF output_dir \in exists
           THEN /\ calls' = Append(calls, Call("makedirs", TRUE))
                /\ pc' = "h_write"
                /\ UNCHANGED <<exists, outcome>>
           ELSE \/ /\ exists' = exists \cup {output_dir}
                   /\ calls' = Append(calls, Call("makedirs", TRUE))
                   /\ pc' = "h_write"
                   /\ UNCHANGED outcome
                \/ /\ calls' = Append(calls, Call("makedirs", FALSE))
                   /\ Escapes("PermissionError")
                   /\ UNCHANGED exists
    /\ UNCHANGED <<args, progress, out_content, written, source, response, loop,
                   texts>>

\* the write in the except clause did not go through: the diarized variants
\* catch and report, the "audio" variant does not
HandlerWriteFailed(e) ==
    IF variant = "audio" THEN Escapes(e) ELSE ReturnWith(error_message)

\* with open(output_file, 'w') as f: f.write(error_message), then return
HandlerWrite ==
    /\ pc = "h_write"
    /\ \/ /\ out_content' = error_message
          /\ written' = written \cup {output_file}
          /\ calls' = calls \o <<Call("open", TRUE), Call("write", TRUE)>>
          /\ ReturnWith(error_message)
       \/ /\ calls' = Append(calls, Call("open", FALSE))
          /\ HandlerWriteFailed("PermissionError")
          /\ UNCHANGED <<out_content, written>>
       \/ /\ out_content' = ""
          /\ written' = written \cup {output_file}
          /\ calls' = calls \o <<Call("open", TRUE), Call("write", FALSE)>>
          /\ HandlerWriteFailed("OSError")
    /\ UNCHANGED <<args, progress, exists, source, response, loop, texts>>

(***************************************************************************)
(* The progress thread of the "final" variant: update_progress.            *)
(***************************************************************************)
\* while not stop_event.is_set()
ProgressCheck ==
    /\ progress_thread = "check"
    /\ progress_thread' = IF progress_stop_event THEN "exited" ELSE "write"
    /\ UNCHANGED <<args, files, source, pc, response, loop, texts, outcome, calls,
                   progress_stop_event>>

\* the body of the loop: sys.stdout.write, flush, time.sleep(0.1)
ProgressWrite ==
    /\ progress_thread = "write"
    /\ progress_thread' = "check"
    /\ UNCHANGED <<args, files, source, pc, response, loop, texts, outcome, calls,
                   progress_stop_event>>

(***************************************************************************)
(* The script: the block under if __name__ == "__main__".                  *)
(***************************************************************************)
\* encoding_map.get(name)
EncodingMapGet(name) == IF name \in SupportedEncodings THEN name ELSE None

\* the process ends; its daemon thread ends with it
Exit(status) ==
    /\ exit_status' = status
    /\ pc' = "exited"
    /\ progress_thread' =
           IF progress_thread \in {"check", "write"} THEN "killed" ELSE progress_thread
    /\ UNCHANGED <<ret, raised, progress_stop_event>>

\* the checks of the command line before the function is called
ParseArgs ==
    /\ pc = "main"
    /\ LET audio_encoding ==
               IF encoding = None THEN None ELSE EncodingMapGet(Upper(encoding))
           unsupported == encoding # None /\ audio_encoding = None
           refused ==
               IF variant = "final"
               THEN encoding = None /\ Lower(Ext(audio_source)) # ".mp3"
               ELSE audio_encoding \in RateEncodings /\ sample_rate = None
       IN  IF unsupported \/ refused
           THEN Exit("1") /\ UNCHANGED encoding
           ELSE /\ encoding' = audio_encoding
                /\ pc' = "main_output"
                /\ UNCHANGED <<outcome, progress>>
    /\ UNCHANGED <<entry, variant, audio_source, output_file, sample_rate,
                   env_bucket, env_cred, existed, files, source, response, loop,
                   texts, calls>>

\* datetime.now().strftime("%Y%m%d_%H%M%S")
Timestamp == "20250101_000000"

\* the output path the script makes up when none is given
DefaultOutputFile(v, src) ==
    LET file_base == Base(Basename(src))
    IN  IF v = "audio"
        THEN "output/" \o file_base \o "_transcript.txt"
        ELSE "output/" \o file_base \o "_" \o Timestamp \o "_diarized.txt"

\* sample_rate=sample_rate_hertz if sample_rate_hertz is not None else 0
PassedSampleRate(v, rate) == IF v # "final" /\ rate = None THEN "0" ELSE rate

\* the default output path, then the call of the function
DefaultOutput ==
    /\ pc = "main_output"
    /\ \/ /\ output_file # ""
          /\ pc' = "start"
          /\ sample_rate' = PassedSampleRate(variant, sample_rate)
          /\ UNCHANGED <<output_file, exists, existed, calls, outcome, progress>>
       \/ \* os.makedirs("output", exist_ok=True)
          /\ output_file = ""
          /\ exists' = exists \cup {"output"}
          /\ existed' = exists'
          /\ calls' = Append(calls, Call("main_makedirs", TRUE))
          /\ output_file' = DefaultOutputFile(variant, audio_source)
          /\ pc' = "start"
          /\ sample_rate' = PassedSampleRate(variant, sample_rate)
          /\ UNCHANGED <<outcome, progress>>
       \/ \* os.makedirs raises: nothing catches it
          /\ output_file = ""
          /\ calls' = Append(calls, Call("main_makedirs", FALSE))
          /\ Exit("1")
          /\ UNCHANGED <<output_file, sample_rate, exists, existed>>
    /\ UNCHANGED <<entry, variant, audio_source, encoding, env_bucket, env_cred,
                   out_content, written, source, response, loop, texts>>

\* the function returned: the script prints the message and ends
MainReturned ==
    /\ entry = "main"
    /\ pc = "returned"
    /\ Exit("0")
    /\ UNCHANGED <<args, files, source, response, loop, texts, calls>>

\* an exception left the function: the interpreter prints it and ends
MainUncaught ==
    /\ entry = "main"
    /\ pc = "raised"
    /\ Exit("1")
    /\ UNCHANGED <<args, files, source, response, loop, texts, calls>>

\* the steps of the main thread
MainThread ==
    \/ ParseArgs \/ DefaultOutput \/ MainReturned \/ MainUncaught
    \/ Begin \/ ConvertMp3 \/ CheckConfig \/ ResolveSource \/ Upload \/ Submit
    \/ PollDone \/ Sleep \/ WaitResult
    \/ BasicFormat \/ FormatBegin \/ SegmentStep \/ WordStep \/ Finalize
    \/ SaveSkip \/ MakeDirs \/ WriteFile \/ Return \/ RemoveFlac
    \/ HandlerSkip \/ HandlerMakeDirs \/ HandlerWrite

\* the steps of the progress thread
ProgressThread == ProgressCheck \/ ProgressWrite

Next == MainThread \/ ProgressThread

Spec == Init /\ [][Next]_vars

\* both threads are scheduled: each takes its next step
LiveSpec == Spec /\ WF_vars(MainThread) /\ WF_vars(ProgressThread)

(***************************************************************************)
(* What the claims speak of, read off the response and the texts alone.    *)
(***************************************************************************)
RECURSIVE FlatTokens(_)
\* the word lists of the first alternatives, segment after segment
FlatTokens(results) ==
    IF results = <<>> THEN <<>>
    ELSE LET r == Head(results)
         IN  (IF r # <<>> /\ r[1].hasWords THEN r[1].words ELSE <<>>)
                 \o FlatTokens(Tail(results))

IsToken(t) == ~t.isNone

\* the tokens that are not None
KeptTokens(tokens) == SelectSeq(tokens, IsToken)

NormalizedTag(t) == IF t.speaker_tag \in {None, NoAttr} THEN "?" ELSE t.speaker_tag

TextOf(t) == IF t.word = NoAttr THEN "" ELSE t.word

TextsOf(tokens) == [i \in 1..Len(tokens) |-> TextOf(tokens[i])]

RECURSIVE IndexOf(_, _, _)
\* the least i >= from with s[i..] starting with p, Len(s) + 1 when there is none
IndexOf(s, p, from) ==
    IF from > Len(s) THEN Len(s) + 1
    ELSE IF StartsWith(SubSeq(s, from, Len(s)), p) THEN from
    ELSE IndexOf(s, p, from + 1)

RECURSIVE ParseWords(_)
\* the word texts of an untrimmed transcript, in order: separators and
\* labels are skipped, every other piece ends at its single space
ParseWords(t) ==
    IF t = "" THEN <<>>
    ELSE IF StartsWith(t, "\n\n") THEN ParseWords(SubSeq(t, 3, Len(t)))
    ELSE IF StartsWith(t, "Speaker ")
         THEN ParseWords(SubSeq(t, IndexOf(t, ": ", 1) + 2, Len(t)))
    ELSE LET n == IndexOf(t, " ", 1)
         IN  <<SubSeq(t, 1, n - 1)>> \o ParseWords(SubSeq(t, n + 1, Len(t)))

RECURSIVE CountOf(_, _)
\* the number of places where p starts in s
CountOf(s, p) ==
    IF Len(s) < Len(p) THEN 0
    ELSE (IF StartsWith(s, p) THEN 1 ELSE 0) + CountOf(Tail(s), p)

RECURSIVE Turns(_)
\* the maximal runs of equal normalized tags
Turns(tokens) ==
    IF tokens = <<>> THEN <<>>
    ELSE LET t == Head(tokens)
             rest == Turns(Tail(tokens))
         IN  IF rest # <<>> /\ rest[1].speaker = NormalizedTag(t)
             THEN <<[speaker |-> NormalizedTag(t),
                     words |-> <<TextOf(t)>> \o rest[1].words]>> \o Tail(rest)
             ELSE <<[speaker |-> NormalizedTag(t), words |-> <<TextOf(t)>>]>> \o rest

RECURSIVE JoinWith(_, _)
\* sep.join(parts)
JoinWith(parts, sep) ==
    IF parts = <<>> THEN ""
    ELSE IF Len(parts) = 1 THEN parts[1]
    ELSE parts[1] \o sep \o JoinWith(Tail(parts), sep)

RECURSIVE EachFollowedBy(_, _)
\* every part followed by sep
EachFollowedBy(parts, sep) ==
    IF parts = <<>> THEN "" ELSE parts[1] \o sep \o EachFollowedBy(Tail(parts), sep)

\* a turn as the loop writes it: the label, then every word and a space
TurnSpaced(turn) == "Speaker " \o turn.speaker \o ": " \o EachFollowedBy(turn.words, " ")

\* the turns of the tokens, joined by blank lines
TurnsJoined(tokens) ==
    LET turns == Turns(tokens)
    IN  JoinWith([i \in 1..Len(turns) |-> TurnSpaced(turns[i])], "\n\n")

\* the number of calls of op so far
Count(op) == Cardinality({i \in 1..Len(calls) : calls[i].op = op})

\* no call of one of the ops has raised
AllOk(ops) == \A i \in 1..Len(calls) : calls[i].op \in ops => calls[i].ok

\* the recognition response has arrived
ResponseArrived == \E i \in 1..Len(calls) : calls[i] = Call("result", TRUE)

FileOps == {"makedirs", "open", "write"}

\* the tokens the loop has passed when it stands before word word_index of
\* segment result_index
TokensBefore ==
    FlatTokens(SubSeq(response, 1, result_index - 1))
        \o SubSeq(response[result_index][1].words, 1, word_index - 1)

\* the token the loop stands before
TokenHere == response[result_index][1].words[word_index]

\* the transcript a finished run produced: returned by the "diar" variant,
\* kept for the file by the "final" variant
ProducedTranscript == IF variant = "final" THEN final_transcript_content ELSE ret

(***************************************************************************)
(* C1: a label "Speaker {tag}: " is emitted immediately before a token iff  *)
(* the token is not None and either no token that is not None precedes it   *)
(* or its normalized tag differs from that of the nearest such token, also  *)
(* across segment boundaries; a token with the same tag gets no label.      *)
(***************************************************************************)
C1_LabelDue ==
    /\ IsToken(TokenHere)
    /\ LET before == KeptTokens(TokensBefore)
       IN  \/ before = <<>>
           \/ NormalizedTag(before[Len(before)]) # NormalizedTag(TokenHere)

C1_LabelIffTagChanges ==
    [][pc = "fmt_word" =>
          formatted_transcript' =
              IF C1_LabelDue
              THEN formatted_transcript
                       \o (IF formatted_transcript = "" THEN "" ELSE "\n\n")
                       \o "Speaker " \o NormalizedTag(TokenHere) \o ": "
                       \o TextOf(TokenHere) \o " "
              ELSE IF IsToken(TokenHere)
                   THEN formatted_transcript \o TextOf(TokenHere) \o " "
                   ELSE formatted_transcript]_vars

\* the loop stands before the first word of the second segment, which has
\* the tag of the last word of the first segment: no label is due
C1_Witness ==
    /\ pc = "fmt_word"
    /\ result_index = 2
    /\ word_index = 1
    /\ IsToken(TokenHere)
    /\ KeptTokens(TokensBefore) # <<>>
    /\ ~C1_LabelDue
    /\ formatted_transcript # ""

(***************************************************************************)
(* C2: the word texts in the transcript when the loop ends are, in order,   *)
(* the texts of the tokens of the first alternative of every segment:       *)
(* nothing dropped, reordered or duplicated, nothing from other             *)
(* alternatives, and segments without alternatives or without a word list   *)
(* do not stop later segments.                                             *)
(***************************************************************************)
C2_WordsInOrder ==
    pc = "fmt_end" =>
        ParseWords(formatted_transcript) = TextsOf(KeptTokens(FlatTokens(response)))

\* the loop has ended on a response whose first segment has no alternatives
\* and whose second segment has two alternatives and two words
C2_Witness ==
    /\ pc = "fmt_end"
    /\ Len(response) = 2
    /\ response[1] = <<>>
    /\ Len(response[2]) = 2
    /\ ParseWords(formatted_transcript) = <<"b", "a">>

(***************************************************************************)
(* C3, as claimed: for a non-empty token sequence the produced transcript   *)
(* is the turns joined by "\n\n", each turn its label followed by its words *)
(* joined by single spaces, with no leading or trailing whitespace.  It is  *)
(* stated here for the sequences in which every token carries a text, the   *)
(* case of the claim's own example.                                         *)
(***************************************************************************)
C3_TurnJoined(turn) == "Speaker " \o turn.speaker \o ": " \o JoinWith(turn.words, " ")

C3_ShapeAsClaimed ==
    (/\ pc = "returned"
     /\ KeptTokens(FlatTokens(response)) # <<>>
     /\ \A i \in 1..Len(FlatTokens(response)) :
            IsToken(FlatTokens(response)[i]) => TextOf(FlatTokens(response)[i]) # "") =>
        LET turns == Turns(KeptTokens(FlatTokens(response)))
        IN  ProducedTranscript =
                JoinWith([i \in 1..Len(turns) |-> C3_TurnJoined(turns[i])], "\n\n")

(***************************************************************************)
(* C3, amended: for a non-empty token sequence the produced transcript is   *)
(* the turns joined by "\n\n" (separators = labels - 1), each turn its      *)
(* label followed by its words, every word followed by one space, and the   *)
(* whole trimmed of leading and trailing whitespace: a turn that is not the *)
(* last keeps its trailing space before the separator.                      *)
(***************************************************************************)
C3_ShapeAmended ==
    (pc = "returned" /\ KeptTokens(FlatTokens(response)) # <<>>) =>
        LET turns == Turns(KeptTokens(FlatTokens(response)))
        IN  /\ ProducedTranscript = Strip(TurnsJoined(KeptTokens(FlatTokens(response))))
            /\ CountOf(ProducedTranscript, "\n\n") = Len(turns) - 1
            /\ CountOf(ProducedTranscript, "Speaker ") = Len(turns)
            /\ ~IsSpace(Head(ProducedTranscript))
            /\ ~IsSpace(SubSeq(ProducedTranscript, Len(ProducedTranscript),
                               Len(ProducedTranscript)))

\* a finished run over two turns, the first of two words
C3_Witness ==
    /\ pc = "returned"
    /\ variant = "diar"
    /\ ret = "Speaker 1: a b \n\nSpeaker 2: a"

(***************************************************************************)
(* C4: in both diarized variants, when no token text was collected the      *)
(* final text, returned and written, is the EmptyResult message iff the     *)
(* response has zero segments, and the NoWordData message whenever it has   *)
(* at least one segment, segments without alternatives included.  Stated    *)
(* for the runs in which no call on the file system raised.                 *)
(***************************************************************************)
C4_ErrorTextByResponse ==
    (/\ pc = "returned"
     /\ variant \in Diarized
     /\ ResponseArrived
     /\ AllOk(FileOps)
     /\ KeptTokens(FlatTokens(response)) = <<>>) =>
        LET text == IF response = <<>> THEN EmptyResultMsg ELSE NoWordDataMsg
        IN  /\ ret = text
            /\ Count("write") > 0 => out_content = text

(***************************************************************************)
(* C5: with an output path given, whichever stage fails (configuration      *)
(* missing, source not found, upload failed, MP3 conversion failed,         *)
(* recognition raised, empty or word-less result), the run ends with a      *)
(* message and that message is in the destination file when the function    *)
(* returns.  Stated for the runs in which no call on the file system        *)
(* raised.                                                                  *)
(***************************************************************************)
C5_StageFailure(message) ==
    \/ message \in {BucketMissingMsg, CredentialsMissingMsg, UploadFailedMsg,
                    ConversionFailedMsg, EmptyResultMsg, NoWordDataMsg}
    \/ StartsWith(message, "Error: Audio source not found at '")
    \/ StartsWith(message, "An error occurred during transcription: ")

C5_FailureMessageWritten ==
    (/\ pc = "returned"
     /\ output_file # ""
     /\ AllOk(FileOps)
     /\ C5_StageFailure(ret)) => out_content = ret

(***************************************************************************)
(* C6: whatever collaborator operations fail, the function returns a        *)
(* message string and no exception leaves it.                               *)
(***************************************************************************)
C6_NoExceptionEscapes == pc # "raised" /\ raised = NoExc

(***************************************************************************)
(* C7: the return value is the text computed from the response, whether or  *)
(* not creating the directory and writing the file succeed.  Stated for the *)
(* "diar" variant, whose return value is the transcript itself.             *)
(***************************************************************************)
C7_ReturnIndependentOfSave ==
    (/\ pc \in {"returned", "raised"}
     /\ variant = "diar"
     /\ ResponseArrived) =>
        /\ pc = "returned"
        /\ ret = IF KeptTokens(FlatTokens(response)) # <<>>
                 THEN Strip(TurnsJoined(KeptTokens(FlatTokens(response))))
                 ELSE IF response # <<>> THEN NoWordDataMsg ELSE EmptyResultMsg

(***************************************************************************)
(* C8: in the diarized variants, (a) the file is opened for writing only    *)
(* after the create-directory step, with the directory of a non-empty       *)
(* parent component in place; (b) the create-directory step changes nothing *)
(* when the directory exists; (c) when the create-directory step and the    *)
(* write succeed, after the call the directory exists and the file holds    *)
(* exactly the trimmed transcript, or the error text.                       *)
(***************************************************************************)
C8_DirectoryBeforeOpen ==
    (variant \in Diarized /\ pc \in {"write", "h_write"}
        /\ Dirname(output_file) # "") =>
        /\ Dirname(output_file) \in exists
        /\ calls # <<>>
        /\ calls[Len(calls)] = Call("makedirs", TRUE)

C8_NoOpWhenPresent ==
    (variant \in Diarized /\ pc \in {"save", "h_save"} /\ output_file # ""
        /\ Dirname(output_file) \in exists /\ pc' # pc) =>
        /\ UNCHANGED files
        /\ pc' = IF pc = "save" THEN "write" ELSE "h_write"

C8_ExpectedContent ==
    IF error_message # "" THEN {error_message}
    ELSE IF KeptTokens(FlatTokens(response)) # <<>>
    THEN {Strip(TurnsJoined(KeptTokens(FlatTokens(response))))}
    ELSE {EmptyResultMsg, NoWordDataMsg}

C8_FileAfterCall ==
    (/\ variant \in Diarized
     /\ pc = "returned"
     /\ Count("write") > 0
     /\ AllOk(FileOps)) =>
        /\ Dirname(output_file) # "" => Dirname(output_file) \in exists
        /\ out_content \in C8_ExpectedContent

C8_WriterContract ==
    /\ [](C8_DirectoryBeforeOpen /\ C8_FileAfterCall)
    /\ [][C8_NoOpWhenPresent]_vars

\* a finished run that found no directory "out", made it and wrote the
\* transcript of two turns into out/t.txt
C8_Witness ==
    /\ pc = "returned"
    /\ variant \in Diarized
    /\ output_file = "out/t.txt"
    /\ "out" \notin existed
    /\ "out" \in exists
    /\ AllOk(FileOps)
    /\ out_content = "Speaker 1: a \n\nSpeaker ?: a"

(***************************************************************************)
(* C9: the calls of a run come in the order upload, recognition submission, *)
(* wait, directory creation, write, and each happens at most once: no stage *)
(* is entered twice and no earlier stage is entered again.                  *)
(***************************************************************************)
C9_Rank(op) ==
    CASE op \in {"main_makedirs", "ffmpeg"} -> 0
      [] op = "upload" -> 1
      [] op \in {"SpeechClient", "long_running_recognize"} -> 2
      [] op = "result" -> 3
      [] op = "makedirs" -> 4
      [] op \in {"open", "write"} -> 5
      [] op = "remove" -> 6

C9_EachStageOnce ==
    /\ \A op \in {"upload", "long_running_recognize", "result", "makedirs", "open"} :
           Count(op) <= 1
    /\ \A i, j \in 1..Len(calls) :
           i < j => C9_Rank(calls[i].op) <= C9_Rank(calls[j].op)

(***************************************************************************)
(* C10: once the recognition request is submitted the wait ends and the run *)
(* reaches its end, also when operation.done() answers False for ever.      *)
(***************************************************************************)
C10_WaitEnds == (pc \in {"poll", "sleep", "result"}) ~> (pc \in {"returned", "raised"})

(***************************************************************************)
(* C11: in each of the three scripts, an unsupported encoding name, or a    *)
(* missing sample rate for an encoding that requires one (LINEAR16, FLAC,   *)
(* MULAW; for an input that is not converted from MP3), ends the process    *)
(* with a failure status during the checks of the command line, before any  *)
(* conversion, upload or recognition call; every later end of the process   *)
(* is a normal one, after the function returned its message.                *)
(***************************************************************************)
C11_Invalid ==
    /\ encoding # None
    /\ \/ Upper(encoding) \notin SupportedEncodings
       \/ /\ Upper(encoding) \in RateEncodings
          /\ sample_rate = None
          /\ ~(variant = "final" /\ Lower(Ext(audio_source)) = ".mp3")

C11_ValidationExits ==
    [][/\ (pc = "main" /\ pc' # pc /\ C11_Invalid) =>
              (pc' = "exited" /\ exit_status' = "1" /\ calls' = <<>>)
       /\ (pc # "main" /\ pc' = "exited") =>
              (exit_status' = "0" /\ ret' # NoRet)]_vars

(***************************************************************************)
(* C12: in the "final" variant, in every run in which the MP3 was converted *)
(* the converted FLAC file is removed iff the run ends with a successful    *)
(* transcription; on every failure outcome (configuration missing, upload   *)
(* failed, recognition raised, empty result, no word data) it is left in    *)
(* place.  Stated for the runs in which os.remove did not raise.            *)
(***************************************************************************)
C12_Successful == StartsWith(ret, "Transcription successful using file: ")

C12_FlacRemovedIffSuccess ==
    (/\ variant = "final"
     /\ was_converted
     /\ pc \in {"returned", "raised"}
     /\ AllOk({"remove"})) =>
        (FlacPath(audio_source) \notin exists <=> C12_Successful)

(***************************************************************************)
(* C13: in every variant, for a call with valid arguments, (a) the run ends *)
(* with "Error: Audio source not found at '...'" exactly when the           *)
(* configuration is present and the audio reference is neither an existing  *)
(* local path nor a gs:// reference; (b) a reference that starts with       *)
(* gs://, in any case of the letters, is taken as the storage URI with no   *)
(* upload and no other processing that can fail, and the run goes on to     *)
(* recognition.                                                             *)
(***************************************************************************)
C13_ArgumentsValid == ~(encoding \in RateEncodings /\ sample_rate = None)

C13_SourceNotFound ==
    (pc = "returned" /\ C13_ArgumentsValid) =>
        /\ ret = SourceNotFoundMsg(audio_source) <=>
               (/\ env_bucket
                /\ env_cred
                /\ audio_source \notin existed
                /\ ~IsRemote(audio_source))
        /\ (IsRemote(audio_source) /\ env_bucket /\ env_cred) =>
               (/\ Count("upload") = 0
                /\ Count("ffmpeg") = 0
                /\ Count("SpeechClient") = 1
                /\ gcs_uri = audio_source)

(***************************************************************************)
(* C14: in the diarized loop an absent speaker tag is normalized to "?"     *)
(* before it is compared with current_speaker: while the loop runs,         *)
(* current_speaker is None until the first token that is not None and then  *)
(* the normalized tag of the latest such token; None differs from every     *)
(* normalized tag, so the transcript starts with the label of the first     *)
(* token also when its tag is absent; and the transcript holds exactly one  *)
(* "Speaker ?: " label for every maximal run of absent-tag tokens.          *)
(***************************************************************************)
C14_IsUntagged(turn) == turn.speaker = "?"

C14_UntaggedRuns ==
    /\ pc = "fmt_word" =>
           LET before == KeptTokens(TokensBefore)
           IN  /\ current_speaker =
                      IF before = <<>> THEN None
                      ELSE NormalizedTag(before[Len(before)])
               /\ NormalizedTag(TokenHere) # None
    /\ pc = "fmt_end" =>
           LET kept == KeptTokens(FlatTokens(response))
           IN  /\ kept # <<>> =>
                      StartsWith(formatted_transcript,
                                 "Speaker " \o NormalizedTag(kept[1]) \o ": ")
               /\ CountOf(formatted_transcript, "Speaker ?: ") =
                      Len(SelectSeq(Turns(kept), C14_IsUntagged))

\* the loop has ended on the tokens a/absent, b/absent, a/1, b/absent: two
\* runs of untagged tokens, the first of two tokens
C14_Witness ==
    /\ pc = "fmt_end"
    /\ formatted_transcript = "Speaker ?: a b \n\nSpeaker 1: a \n\nSpeaker ?: b "

(***************************************************************************)
(* C15: for every token sequence the number of "Speaker {tag}: " labels in  *)
(* the transcript equals the number of maximal runs of consecutive equal    *)
(* normalized tags: one label when all tokens of a non-empty sequence share *)
(* one tag, as many labels as tokens when the tag changes at every token.   *)
(***************************************************************************)
C15_RunStarts(tokens) ==
    {i \in 1..Len(tokens) :
        i = 1 \/ NormalizedTag(tokens[i]) # NormalizedTag(tokens[i - 1])}

C15_LabelsCountRuns ==
    pc = "fmt_end" =>
        LET kept == KeptTokens(FlatTokens(response))
            labels == CountOf(formatted_transcript, "Speaker ")
        IN  /\ labels = Cardinality(C15_RunStarts(kept))
            /\ (kept # <<>> /\ \A i \in 1..Len(kept) :
                    NormalizedTag(kept[i]) = NormalizedTag(kept[1])) => labels = 1
            /\ (\A i \in 2..Len(kept) :
                    NormalizedTag(kept[i]) # NormalizedTag(kept[i - 1])) =>
                   labels = Len(kept)

\* the loop has ended on four tokens whose tag changes at every token
C15_Witness ==
    /\ pc = "fmt_end"
    /\ Len(KeptTokens(FlatTokens(response))) = 4
    /\ Cardinality(C15_RunStarts(KeptTokens(FlatTokens(response)))) = 4
    /\ CountOf(formatted_transcript, "Speaker ") = 4

(***************************************************************************)
(* C16, as claimed: for every token sequence, tokens with empty or missing  *)
(* text included, splitting the produced transcript on whitespace and       *)
(* removing the label pieces gives, in order, exactly the list of the word  *)
(* texts of the tokens.                                                     *)
(***************************************************************************)
RECURSIVE C16_FirstSpace(_, _)
\* the least i >= from with a whitespace character at s[i], else Len(s) + 1
C16_FirstSpace(s, from) ==
    IF from > Len(s) THEN Len(s) + 1
    ELSE IF IsSpace(SubSeq(s, from, from)) THEN from
    ELSE C16_FirstSpace(s, from + 1)

RECURSIVE C16_Split(_)
\* str.split(): the maximal pieces without whitespace
C16_Split(s) ==
    IF s = "" THEN <<>>
    ELSE IF IsSpace(Head(s)) THEN C16_Split(Tail(s))
    ELSE LET n == C16_FirstSpace(s, 1)
         IN  <<SubSeq(s, 1, n - 1)>> \o C16_Split(SubSeq(s, n, Len(s)))

RECURSIVE C16_DropLabels(_)
\* the pieces without the two pieces of every label, "Speaker" and "{tag}:"
C16_DropLabels(pieces) ==
    IF pieces = <<>> THEN <<>>
    ELSE IF /\ Len(pieces) >= 2
            /\ pieces[1] = "Speaker"
            /\ SubSeq(pieces[2], Len(pieces[2]), Len(pieces[2])) = ":"
         THEN C16_DropLabels(SubSeq(pieces, 3, Len(pieces)))
    ELSE <<pieces[1]>> \o C16_DropLabels(Tail(pieces))

C16_NotEmpty(text) == text # ""

C16_RoundTripAsClaimed ==
    (pc = "returned" /\ KeptTokens(FlatTokens(response)) # <<>>) =>
        C16_DropLabels(C16_Split(ProducedTranscript)) =
            TextsOf(KeptTokens(FlatTokens(response)))

(***************************************************************************)
(* C16, amended: for every non-empty token sequence, splitting the produced *)
(* transcript on whitespace and removing the label pieces gives, in order,  *)
(* the word texts of the tokens that are not empty; a token whose text is   *)
(* empty or missing leaves no piece.                                        *)
(***************************************************************************)
C16_RoundTripAmended ==
    (pc = "returned" /\ KeptTokens(FlatTokens(response)) # <<>>) =>
        C16_DropLabels(C16_Split(ProducedTranscript)) =
            SelectSeq(TextsOf(KeptTokens(FlatTokens(response))), C16_NotEmpty)

\* a finished run over three tokens, the second without text
C16_Witness ==
    /\ pc = "returned"
    /\ TextsOf(KeptTokens(FlatTokens(response))) = <<"a", "", "b">>
    /\ C16_DropLabels(C16_Split(ProducedTranscript)) = <<"a", "b">>

(***************************************************************************)
(* C17: in the "final" variant, for every response, the word count in the  *)
(* success status message is the number of tokens appended to the           *)
(* transcript: the tokens that are None are not counted.                    *)
(***************************************************************************)
C17_WordCountIsAppended ==
    (/\ variant = "final"
     /\ pc = "returned"
     /\ StartsWith(ret, "Transcription successful using file: ")) =>
        StartsWith(ret, SuccessStatus(audio_source_to_process,
                                      Len(KeptTokens(FlatTokens(response))),
                                      Len(response)))

(***************************************************************************)
(* C18: in the "final" variant, (a) when ffmpeg fails or is not found the   *)
(* run returns the conversion-failed message and makes no upload and no     *)
(* recognition call; (b) in every run, whether the conversion succeeds or   *)
(* fails and through the removal of the converted file, the input MP3 file  *)
(* is neither deleted nor written.                                          *)
(***************************************************************************)
C18_ConverterFailed == \E i \in 1..Len(calls) : calls[i] = Call("ffmpeg", FALSE)

C18_InputUntouched ==
    (variant = "final" /\ Lower(Ext(audio_source)) = ".mp3") =>
        /\ C18_ConverterFailed =>
               (/\ pc \in {"returned", "exited"}
                /\ ret = ConversionFailedMsg
                /\ Count("upload") = 0
                /\ Count("SpeechClient") = 0
                /\ Count("long_running_recognize") = 0)
        /\ audio_source \notin written
        /\ audio_source \in existed => audio_source \in exists

\* a finished run that converted a.mp3, transcribed a.flac and removed it
C18_Witness ==
    /\ variant = "final"
    /\ pc = "returned"
    /\ audio_source = "a.mp3"
    /\ \E i \in 1..Len(calls) : calls[i] = Call("remove", TRUE)
    /\ "a.flac" \in written
    /\ exists \cap {"a.mp3", "a.flac"} = {"a.mp3"}

(***************************************************************************)
(* C19: in every variant, for a call with valid arguments, when the bucket  *)
(* name or the credential setting is absent the run returns the             *)
(* configuration-missing message, whatever the audio reference is (the      *)
(* configuration check comes before the source-existence check and the      *)
(* upload), and makes no network call: no storage upload, no speech client, *)
(* no recognition request.                                                  *)
(***************************************************************************)
C19_NetworkCalls == {"upload", "SpeechClient", "long_running_recognize", "result"}

C19_ConfigurationFirst ==
    (~(env_bucket /\ env_cred) /\ C13_ArgumentsValid) =>
        /\ \A i \in 1..Len(calls) : calls[i].op \notin C19_NetworkCalls
        /\ pc = "returned" =>
               ret = IF ~env_bucket THEN BucketMissingMsg ELSE CredentialsMissingMsg

(***************************************************************************)
(* C20: in the "final" variant, in every run that starts the progress       *)
(* thread, (a) the stop event is set as soon as the wait for the            *)
(* recognition result ends, whether it returned or raised, and before the   *)
(* formatting starts; (b) once the stop event is set the progress thread    *)
(* eventually leaves its loop; (c) the thread changes nothing but its own   *)
(* position (it writes to the console only), and under every interleaving   *)
(* of its steps with the main thread the transcript and the status message  *)
(* are the same, the ones the response determines.                          *)
(***************************************************************************)
C20_StopEventSet ==
    (progress_thread # "none" /\ pc # "result") => progress_stop_event

C20_ThreadWritesConsoleOnly ==
    (progress_thread' # progress_thread /\ pc' = pc) =>
        UNCHANGED <<args, files, source, response, loop, texts, outcome, calls,
                    progress_stop_event>>

C20_WordlessSegment(result) == result # <<>> /\ ~HasWords(result[1])

C20_Text(results) ==
    IF KeptTokens(FlatTokens(results)) # <<>>
    THEN Strip(TurnsJoined(KeptTokens(FlatTokens(results))))
    ELSE IF SelectSeq(results, C20_WordlessSegment) # <<>>
    THEN NoWordDataMsg
    ELSE EmptyResultMsg

C20_Status(results) ==
    IF KeptTokens(FlatTokens(results)) # <<>>
    THEN SuccessStatus(audio_source_to_process, Len(FlatTokens(results)),
                       Len(results))
    ELSE C20_Text(results)

C20_ResultDetermined ==
    (/\ variant = "final"
     /\ pc = "returned"
     /\ ResponseArrived
     /\ AllOk({"makedirs"})) =>
        /\ final_transcript_content = C20_Text(response)
        /\ StartsWith(ret, C20_Status(response))

C20_ProgressIsCosmetic ==
    /\ [](C20_StopEventSet /\ C20_ResultDetermined)
    /\ [][C20_ThreadWritesConsoleOnly]_vars
    /\ (progress_stop_event ~> (progress_thread \in {"exited", "killed"}))

\* the stop event is set and the thread is still in the body of its loop
\* while the main thread formats the second segment
C20_Witness ==
    /\ variant = "final"
    /\ pc = "fmt_word"
    /\ result_index = 2
    /\ progress_stop_event
    /\ progress_thread = "write"

(***************************************************************************)
(* C21: in the "final" variant, whenever at least one token was collected   *)
(* into the transcript the outcome is success, the file receives the        *)
(* transcript and the status message is the success message, also when      *)
(* processing_error_occurred was set by a segment without word data; the    *)
(* flag decides only when the trimmed transcript is empty.  Stated for the  *)
(* runs in which the directory creation did not raise.                      *)
(***************************************************************************)
C21_WordsOverrideFlag ==
    (variant = "final" /\ ResponseArrived /\ AllOk({"makedirs"})) =>
        /\ (pc = "returned" /\ KeptTokens(FlatTokens(response)) # <<>>) =>
               (/\ final_transcript_content =
                       Strip(TurnsJoined(KeptTokens(FlatTokens(response))))
                /\ StartsWith(ret, "Transcription successful using file: ")
                /\ (Count("write") > 0 /\ AllOk(FileOps)) =>
                       out_content = final_transcript_content)
        /\ (pc = "save" /\ Strip(formatted_transcript) = "") =>
               final_transcript_content =
                   IF processing_error_occurred THEN NoWordDataMsg ELSE EmptyResultMsg

\* a finished run whose first segment had no word data and whose second
\* segment gave one word: the flag is set and the file holds the transcript
C21_Witness ==
    /\ variant = "final"
    /\ pc = "returned"
    /\ processing_error_occurred
    /\ out_content = "Speaker 1: a"
    /\ StartsWith(ret, "Transcription successful using file: ")

(***************************************************************************)
(* C22: in the diarized loop a token whose text is missing is treated as    *)
(* the empty text and keeps its position: it gets a new speaker label when  *)
(* its tag differs from the one of the token before it and it becomes the   *)
(* current speaker; a token that is None is skipped and changes neither the *)
(* transcript nor current_speaker.                                          *)
(***************************************************************************)
C22_TextlessAndNullTokens ==
    [][pc = "fmt_word" =>
          IF TokenHere.isNone
          THEN UNCHANGED <<formatted_transcript, current_speaker>>
          ELSE TokenHere.word = NoAttr =>
                   /\ current_speaker' = NormalizedTag(TokenHere)
                   /\ formatted_transcript' =
                          IF NormalizedTag(TokenHere) # current_speaker
                          THEN formatted_transcript
                                   \o (IF formatted_transcript = "" THEN "" ELSE "\n\n")
                                   \o "Speaker " \o NormalizedTag(TokenHere) \o ":  "
                          ELSE formatted_transcript \o " "]_vars

\* the loop has ended on a/1, None, a token of speaker 2 without text, b/2:
\* the None token left no trace, the textless token opened the turn of 2
C22_Witness ==
    /\ pc = "fmt_end"
    /\ Len(FlatTokens(response)) = 4
    /\ FlatTokens(response)[2].isNone
    /\ formatted_transcript = "Speaker 1: a \n\nSpeaker 2:  b "

(***************************************************************************)
(* C23: in the variant without diarization, for a response with one or     *)
(* more segments the returned and the written text depend on the last       *)
(* segment only: the transcript of its first alternative when that is not   *)
(* empty, else the no-transcript-text message, or the no-alternatives       *)
(* message when it has none; earlier segments and lower alternatives never  *)
(* show.  Stated for the runs in which no call on the file system raised.   *)
(***************************************************************************)
C23_TextOfSegment(segment) ==
    IF segment = <<>> THEN NoAlternativesMsg
    ELSE IF segment[1].transcript # "" THEN segment[1].transcript
    ELSE NoTranscriptTextMsg

C23_LastSegmentOnly ==
    (/\ variant = "audio"
     /\ pc = "returned"
     /\ ResponseArrived
     /\ response # <<>>
     /\ AllOk(FileOps)) =>
        /\ ret = C23_TextOfSegment(response[Len(response)])
        /\ Count("write") > 0 => out_content = ret

\* a finished run over two segments with different transcripts, the last
\* with a second alternative: the file holds the transcript of the last
C23_Witness ==
    /\ variant = "audio"
    /\ pc = "returned"
    /\ Len(response) = 2
    /\ response[1] # <<>>
    /\ response[1][1].transcript = "hello"
    /\ Len(response[2]) = 2
    /\ ret = "bye"
    /\ out_content = "bye"

=============================================================================
